---- MODULE Spec2Model ----
(***************************************************************************)
(* A model of the isla footprint driver (src/src/footprint.rs): main,      *)
(* isla_main, hex_bytes, opcode_bytes, instruction_to_val, and of the      *)
(* parts of isla-lib the driver calls (the solver session and its          *)
(* checkpoints, the interpreter, the multi-threaded task scheduler and the *)
(* trace collector), which are modelled from the specification document.   *)
(***************************************************************************)
EXTENDS Integers, Sequences, FiniteSets, Bags, TLC

(***************************************************************************)
(* Bounds of the model.                                                    *)
(***************************************************************************)
\* largest worker-thread count (num_threads) tried
MaxThreads == 2
\* largest number of symbolic conditionals in the footprint function
MaxForks == 1
\* number of architecture registers the footprint function may test
NumRegs == 1
\* largest number of segments of a partial instruction in the set-up runs
MaxSegments == 2
\* longest event path in the runs of the drain loop alone
MaxPathLen == 4
\* largest number of pieces an IR text of the lexer runs is made of
MaxLexemes == 2
\* largest number of calls of Lexer::next on one text
MaxCalls == 5

(***************************************************************************)
(* Small helpers.                                                          *)
(***************************************************************************)
RECURSIVE Pow2(_)
Pow2(n) == IF n = 0 THEN 1 ELSE 2 * Pow2(n - 1)

Reverse(s) == [i \in 1..Len(s) |-> s[Len(s) + 1 - i]]


(***************************************************************************)
(* Solver session (spec 4.1).  A session holds the variable-declaration    *)
(* counter, the assertions made so far and the trace of events; variable   *)
(* ids are 0..decls-1.  A checkpoint is a copy, by value, of a session.    *)
(* sizes[v] is the bit width of variable v.                                *)
(***************************************************************************)
EmptySession == [decls |-> 0, sizes |-> <<>>, asserts |-> {}, trace |-> <<>>]

\* declare_const: a fresh variable of the given width; the session and the id
DeclareConst(s, size) ==
    [session |-> [s EXCEPT !.decls = s.decls + 1,
                           !.sizes = Append(s.sizes, size),
                           !.trace = Append(s.trace, <<"smt_decl", s.decls, size>>)],
     v |-> s.decls]

\* add(Assert e)
AddAssert(s, e) ==
    [s EXCEPT !.asserts = s.asserts \cup {e},
              !.trace = Append(s.trace, <<"smt_assert", e>>)]

\* an event that is not a solver definition (register access, cycle, ...)
AddEvent(s, ev) == [s EXCEPT !.trace = Append(s.trace, ev)]

\* checkpoint: captures the state without altering it
Checkpoint(s) == s

\* restore, in the solver context own of the restoring thread: an independent
\* session with exactly the checkpoint's contents
Restore(own, chk) == chk

\* A solver expression is a variable <<"v", n>>, a constant <<"k", n>>, the
\* extraction of the low bit <<"low", x>> or a bitwise or <<"or", x, y>>.
RECURSIVE BitOr(_, _)
BitOr(x, y) ==
    IF x = 0 THEN y
    ELSE IF y = 0 THEN x
    ELSE (IF x % 2 = 1 \/ y % 2 = 1 THEN 1 ELSE 0) + 2 * BitOr(x \div 2, y \div 2)

RECURSIVE ExpVars(_)
ExpVars(x) ==
    IF x[1] = "v" THEN {x[2]}
    ELSE IF x[1] = "k" THEN {}
    ELSE IF x[1] = "low" THEN ExpVars(x[2])
    ELSE ExpVars(x[2]) \cup ExpVars(x[3])

RECURSIVE ExpValue(_, _)
ExpValue(x, a) ==
    IF x[1] = "v" THEN a[x[2]]
    ELSE IF x[1] = "k" THEN x[2]
    ELSE IF x[1] = "low" THEN ExpValue(x[2], a) % 2
    ELSE BitOr(ExpValue(x[2], a), ExpValue(x[3], a))

\* An assertion is <<"bit0", x, b>> (the low bit of x is b) or
\* <<"eq", x, k>> (x equals k).  Holds under an assignment a of values.
Holds(e, a) ==
    IF e[1] = "bit0" THEN (ExpValue(e[2], a) % 2 = 1) = e[3]
    ELSE ExpValue(e[2], a) = e[3]

AssertVars(asserts) == UNION {ExpVars(e[2]) : e \in asserts}

\* check-sat: some assignment of in-range values satisfies every assertion
Sat(s) ==
    LET vs == AssertVars(s.asserts)
        Values(v) == 0..(Pow2(s.sizes[v + 1]) - 1)
    IN \E a \in [vs -> UNION {Values(v) : v \in vs}] :
          /\ \A v \in vs : a[v] \in Values(v)
          /\ \A e \in s.asserts : Holds(e, a)

(***************************************************************************)
(* The footprint function (footprint.rs:270-271, the instruction list of   *)
(* the entry function) as a tree of conditionals: <<"ok">> and <<"ok", r>> *)
(* return (the second after writing register r as well),                   *)
(* <<"err">> is an undefined operation, <<"fork", g, t, f>> tests the low  *)
(* bit of guard g and continues with t or f.  Guard 0 is the opcode        *)
(* argument, guard r in Regs the initial value of register r.              *)
(***************************************************************************)
Regs == 1..NumRegs
Guards == {0} \cup Regs

RECURSIVE TreesN(_)
TreesN(n) ==
    IF n = 0 THEN {<<"ok">>, <<"err">>} \cup {<<"ok", r>> : r \in Regs}
    ELSE UNION {{<<"fork", g, t, f>> : g \in Guards, t \in TreesN(i), f \in TreesN(n - 1 - i)}
                : i \in 0..(n - 1)}

Programs == UNION {TreesN(n) : n \in 0..MaxForks}

(***************************************************************************)
(* Interpreter (spec 4.2).  A frame is the position in the function (the   *)
(* remaining tree), the opcode argument and the registers read so far      *)
(* (register -> solver variable).                                          *)
(***************************************************************************)
NewFrame(tree, arg) == [tree |-> tree, arg |-> arg, regs |-> <<>>]

\* The value of guard g in frame fr under session s: the frame and session
\* after the read, and either a concrete boolean or a solver variable.
\* The opcode's low bit is that of its last (least significant) segment.
EvalGuard(fr, s, g) ==
    IF g = 0 THEN
        IF fr.arg[1] = "bits" \/ fr.arg[2] = <<>>
        THEN [frame |-> fr, session |-> s, sym |-> FALSE, b |-> (fr.arg[1] = "bits" /\ fr.arg[2] % 2 = 1), v |-> 0]
        ELSE LET seg == fr.arg[2][Len(fr.arg[2])]
             IN IF seg[1] = "c"
                THEN [frame |-> fr, session |-> s, sym |-> FALSE, b |-> (seg[2] % 2 = 1), v |-> 0]
                ELSE [frame |-> fr, session |-> s, sym |-> TRUE, b |-> FALSE, v |-> seg[2]]
    ELSE IF g \in DOMAIN fr.regs
    THEN [frame |-> fr, session |-> AddEvent(s, <<"read_reg", g, fr.regs[g]>>),
          sym |-> TRUE, b |-> FALSE, v |-> fr.regs[g]]
    ELSE LET d == DeclareConst(s, 1)
         IN [frame |-> [fr EXCEPT !.regs = [r \in (DOMAIN fr.regs) \cup {g} |->
                                               IF r = g THEN d.v ELSE fr.regs[r]]],
             session |-> AddEvent(d.session, <<"read_reg", g, d.v>>),
             sym |-> TRUE, b |-> FALSE, v |-> d.v]

Arm(tree, b) == IF b THEN tree[3] ELSE tree[4]

\* The sibling for arm b of a fork on variable v: the guard is asserted into
\* the sibling's own restore of the parent checkpoint, and the sibling's
\* checkpoint is taken after that assertion.
SiblingBeforeAssert(id, fr, own, parent, v, b) ==
    [id |-> id, frame |-> [fr EXCEPT !.tree = Arm(fr.tree, b)],
     chk |-> Checkpoint(Restore(own, parent))]

Sibling(id, fr, own, parent, v, b) ==
    LET s == AddAssert(Restore(own, parent), <<"bit0", <<"v", v>>, b>>)
    IN [id |-> id, frame |-> [fr EXCEPT !.tree = Arm(fr.tree, b)], chk |-> Checkpoint(s)]

\* Before scheduling a sibling the solver confirms its path condition
Feasible(task) == Sat(task.chk)

\* The end of the function: the instruction is fetched and a cycle counted,
\* memory is read and the destination register 0 (and for a leaf
\* <<"ok", r>> also register r) is written.
RECURSIVE AddEvents(_, _)
AddEvents(s, evs) == IF evs = <<>> THEN s ELSE AddEvents(AddEvent(s, Head(evs)), Tail(evs))

LeafEvents(tree) ==
    <<<<"read_mem", "ifetch">>, <<"cycle">>, <<"read_mem", "plain">>, <<"write_reg", 0>>>>
    \o (IF Len(tree) = 2 THEN <<<<"write_reg", tree[2]>>>> ELSE <<>>)

RunLeaf(s, tree) == AddEvents(s, LeafEvents(tree))

\* The terminal result pushed to the trace collector: events most recent first
OkResult(id, s) == <<"ok", id, Reverse(s.trace)>>
ErrResult(id, s) == <<"err", "undefined operation">>

(***************************************************************************)
(* Instruction encoding (footprint.rs:65-67, 138-153, 189-223).  A string  *)
(* is a sequence of one-character strings.                                 *)
(***************************************************************************)
HexDigits == <<"0", "1", "2", "3", "4", "5", "6", "7", "8", "9", "a", "b", "c", "d", "e", "f">>

IsDigit(c, radix) == \E i \in 1..radix : HexDigits[i] = c
DigitVal(c) == (CHOOSE i \in 1..Len(HexDigits) : HexDigits[i] = c) - 1

\* from_str_radix for an unsigned type: an optional + sign, then one or more
\* digits; <<"ok", n>> or <<"err">>
RECURSIVE DigitsVal(_, _, _)
DigitsVal(s, radix, acc) ==
    IF s = <<>> THEN acc
    ELSE DigitsVal(Tail(s), radix, acc * radix + DigitVal(Head(s)))

FromStrRadix(s, radix) ==
    LET ds == IF s # <<>> /\ Head(s) = "+" THEN Tail(s) ELSE s
    IN IF ds # <<>> /\ \A i \in 1..Len(ds) : IsDigit(ds[i], radix)
       THEN <<"ok", DigitsVal(ds, radix, 0)>>
       ELSE <<"err">>

\* hex_bytes: the bytes of s[i..i+2] for i = 0, 2, 4, ...; collecting stops
\* at the first pair that does not parse, and slicing past the end panics.
RECURSIVE HexBytesFrom(_, _, _)
HexBytesFrom(s, i, acc) ==
    IF i > Len(s) THEN <<"ok", acc>>
    ELSE IF i + 1 > Len(s) THEN <<"panic">>
    ELSE LET b == FromStrRadix(SubSeq(s, i, i + 1), 16)
         IN IF b[1] = "err" THEN <<"err">>
            ELSE HexBytesFrom(s, i + 2, Append(acc, b[2]))

hex_bytes(s) == HexBytesFrom(s, 1, <<>>)

\* B129::from_bytes: the bytes accumulated most significant first
RECURSIVE FromBytes(_, _)
FromBytes(bytes, acc) ==
    IF bytes = <<>> THEN acc ELSE FromBytes(Tail(bytes), acc * 256 + Head(bytes))

\* opcode_bytes: <<"exit">> for more than 8 bytes, else the bit vector
\* <<"bits", value, length>>
opcode_bytesOnlyU16(opcode, little_endian) ==
    IF Len(opcode) > 8 THEN <<"exit">>
    ELSE IF Len(opcode) = 2
    THEN <<"bits",
           IF little_endian THEN FromBytes(Reverse(opcode), 0) ELSE FromBytes(opcode, 0),
           8 * Len(opcode)>>
    ELSE <<"bits", FromBytes(opcode, 0), 8 * Len(opcode)>>

opcode_bytes(opcode, little_endian) ==
    IF Len(opcode) > 8 THEN <<"exit">>
    ELSE IF Len(opcode) = 2 \/ Len(opcode) = 4
    THEN <<"bits",
           IF little_endian THEN FromBytes(Reverse(opcode), 0) ELSE FromBytes(opcode, 0),
           8 * Len(opcode)>>
    ELSE <<"bits", FromBytes(opcode, 0), 8 * Len(opcode)>>

\* split_ascii_whitespace and split(':')
RECURSIVE Split(_, _, _, _)
Split(s, sep, cur, keepEmpty) ==
    IF s = <<>> THEN (IF cur # <<>> \/ keepEmpty THEN <<cur>> ELSE <<>>)
    ELSE IF Head(s) = sep
    THEN (IF cur # <<>> \/ keepEmpty THEN <<cur>> ELSE <<>>) \o Split(Tail(s), sep, <<>>, keepEmpty)
    ELSE Split(Tail(s), sep, Append(cur, Head(s)), keepEmpty)

\* B129::from_str of "0b" followed by s: the bits of a run of binary digits
B129FromStr(s) ==
    IF s # <<>> /\ \A i \in 1..Len(s) : IsDigit(s[i], 2)
    THEN <<"ok", DigitsVal(s, 2, 0)>>
    ELSE <<"err">>

\* One segment of a partial instruction: a run of binary digits is concrete,
\* name:size is symbolic, anything else is unparsable.
ParseSegment(s) ==
    LET bv == B129FromStr(s)
        it == Split(s, ":", <<>>, TRUE)
    IN IF bv[1] = "ok" THEN <<"c", bv[2], Len(s)>>
       ELSE IF Len(it) < 2 THEN <<"bad">>
       ELSE LET size == FromStrRadix(it[2], 10)
            IN IF size[1] = "ok" THEN <<"s", it[1], size[2]>> ELSE <<"bad">>

\* footprint.rs:178-223: the opcode segments, or the way the driver stops
Encode(o) ==
    IF o.endianness \notin {"none", "little", "big"} THEN <<"exit", "endianness">>
    ELSE LET little_endian == o.endianness # "big"
    IN IF o.mode = "partial"
       THEN LET segs == Split(o.instruction, " ", <<>>, FALSE)
                parsed == [i \in 1..Len(segs) |-> ParseSegment(segs[i])]
            IN IF \E i \in 1..Len(parsed) : parsed[i][1] = "bad"
               THEN <<"exit", "Unable to parse instruction segment">>
               ELSE <<"ok", parsed>>
       ELSE IF o.mode = "hex"
       THEN LET r == hex_bytes(o.instruction)
            IN IF r[1] = "panic" THEN <<"panic", "byte index out of range">>
               ELSE IF r[1] = "err" THEN <<"exit", "Could not parse hexadecimal opcode">>
               ELSE LET bv == opcode_bytes(r[2], little_endian)
                    IN IF bv[1] = "exit" THEN <<"exit", "greater than 8 bytes">>
                       ELSE <<"ok", <<<<"c", bv[2], bv[3]>>>>>>
       ELSE IF o.assembled[1] = "err" THEN <<"return", "assembly failed">>
            ELSE LET bv == opcode_bytes(o.assembled[2], little_endian)
                 IN IF bv[1] = "exit" THEN <<"exit", "greater than 8 bytes">>
                    ELSE <<"ok", <<<<"c", bv[2], bv[3]>>>>>>

(***************************************************************************)
(* instruction_to_val (footprint.rs:92-136).  The result is the session    *)
(* after the declarations and assertions and the opcode value:             *)
(* <<"bits", value, length>> or <<"mixed", segments>> with segments        *)
(* <<"c", value, length>> and <<"s", variable>>; or a panic.               *)
(* A constraint is <<"eq", name, k>> or <<"malformed">>.                   *)
(***************************************************************************)
\* the fold over the segments: var_map maps a name to <<size, variable>>
RECURSIVE SegmentsToValAlwaysDeclare(_, _, _, _)
SegmentsToValAlwaysDeclare(opcode, s, var_map, acc) ==
    IF opcode = <<>> THEN [panic |-> FALSE, session |-> s, var_map |-> var_map, segs |-> acc]
    ELSE LET seg == Head(opcode)
         IN IF seg[1] = "c"
            THEN SegmentsToValAlwaysDeclare(Tail(opcode), s, var_map, Append(acc, seg))
            ELSE LET d == DeclareConst(s, seg[3])
                 IN SegmentsToValAlwaysDeclare(Tail(opcode), d.session,
                                  [n \in (DOMAIN var_map) \cup {seg[2]} |->
                                      IF n = seg[2] THEN <<seg[3], d.v>> ELSE var_map[n]],
                                  Append(acc, <<"s", d.v>>))

RECURSIVE SegmentsToVal(_, _, _, _)
SegmentsToVal(opcode, s, var_map, acc) ==
    IF opcode = <<>> THEN [panic |-> FALSE, session |-> s, var_map |-> var_map, segs |-> acc]
    ELSE LET seg == Head(opcode)
         IN IF seg[1] = "c"
            THEN SegmentsToVal(Tail(opcode), s, var_map, Append(acc, seg))
            ELSE IF seg[2] \in DOMAIN var_map
            THEN IF var_map[seg[2]][1] = seg[3]
                 THEN SegmentsToVal(Tail(opcode), s, var_map,
                                    Append(acc, <<"s", var_map[seg[2]][2]>>))
                 ELSE [panic |-> TRUE, session |-> s, var_map |-> var_map, segs |-> acc]
            ELSE LET d == DeclareConst(s, seg[3])
                 IN SegmentsToVal(Tail(opcode), d.session,
                                  [n \in (DOMAIN var_map) \cup {seg[2]} |->
                                      IF n = seg[2] THEN <<seg[3], d.v>> ELSE var_map[n]],
                                  Append(acc, <<"s", d.v>>))

\* the loop over the instruction-constraint options
RECURSIVE AddConstraints(_, _, _)
AddConstraints(cs, s, var_map) ==
    IF cs = <<>> THEN [panic |-> FALSE, session |-> s]
    ELSE LET c == Head(cs)
         IN IF c[1] = "malformed" \/ c[2] \notin DOMAIN var_map
            THEN [panic |-> TRUE, session |-> s]
            ELSE AddConstraints(Tail(cs), AddAssert(s, <<"eq", <<"v", var_map[c[2]][2]>>, c[3]>>), var_map)

instruction_to_val(opcode, constraints, s) ==
    IF Len(opcode) = 1 /\ opcode[1][1] = "c"
    THEN [panic |-> FALSE, session |-> s, val |-> <<"bits", opcode[1][2], opcode[1][3]>>]
    ELSE LET m == SegmentsToVal(opcode, s, <<>>, <<>>)
         IN IF m.panic THEN [panic |-> TRUE, session |-> m.session, val |-> <<"mixed", <<>>>>]
            ELSE LET a == AddConstraints(constraints, m.session, m.var_map)
                 IN [panic |-> a.panic, session |-> a.session, val |-> <<"mixed", m.segs>>]

(***************************************************************************)
(* State.                                                                  *)
(***************************************************************************)
VARIABLES
    opts,        \* the parsed command line (matches, num_threads)
    flags,       \* the flags of the command line the driver has tested so far
    prog,        \* the footprint function of the architecture
    pc,          \* position of the driver in main / isla_main
    opcode,      \* the instruction segments (footprint.rs:189)
    opcode_val,  \* the opcode argument built by instruction_to_val
    solver,      \* the driver's own solver session (footprint.rs:262-268)
    initial_checkpoint,
    pending,     \* the scheduler's shared pending-task source (a bag)
    wstate,      \* per worker: "idle", "busy" or "stopped"
    wtask,       \* per worker: the task it is advancing
    wsession,    \* per worker: its private solver session
    queue,       \* the trace collector (SegQueue): every result pushed so far
    qhead,       \* ... of which the first qhead have been popped
    paths,       \* paths kept for footprint analysis
    stdout,
    stderr,
    code,        \* exit code of the process, once it has exited
    finalized,   \* number of calls of finalize_solver
    source,      \* the IR text a Lexer was constructed over
    lexer,       \* the Lexer: its remaining buffer buf and its position pos
    lexed        \* what the calls of Lexer::next have returned so far, in order

vars == <<opts, flags, prog, pc, opcode, opcode_val, solver, initial_checkpoint, pending, wstate,
          wtask, wsession, queue, qhead, paths, stdout, stderr, code, finalized, source, lexer,
          lexed>>

lexVars == <<source, lexer, lexed>>

driverVars == <<opts, flags, prog, opcode, opcode_val, solver, initial_checkpoint, qhead, paths,
                stdout, stderr, code, finalized>>

schedVars == <<pending, wstate, wtask, wsession, queue>>

Workers == 1..opts.num_threads

\* A Lexer over the text input, before its first call of next: the whole text
\* is still to be read and the position is 0
LexerOver(input) ==
    /\ source = input
    /\ lexer = [buf |-> input, pos |-> 0]
    /\ lexed = <<>>

NoTask == <<>>

(***************************************************************************)
(* Task scheduler (spec 4.3) and trace collector (spec 4.4).               *)
(***************************************************************************)
\* The siblings a forking worker does not continue with are submitted for
\* any idle worker to pick up.
SubmitIfIdle(p, tasks) ==
    IF \E x \in Workers : wstate[x] = "idle" THEN p (+) SetToBag(tasks) ELSE p

Submit(p, tasks) == p (+) SetToBag(tasks)

\* No task remains pending and no worker is advancing (or forking) a task.
QuiescentNoBusy == \A x \in Workers : wstate[x] # "busy"

Quiescent == pending = EmptyBag /\ \A x \in Workers : wstate[x] # "busy"

\* An idle worker pops one pending task and restores its checkpoint in its
\* own solver context.
WorkerTake(w) ==
    /\ pc = "start_multi"
    /\ wstate[w] = "idle"
    /\ \E t \in BagToSet(pending) :
          /\ pending' = pending (-) SetToBag({t})
          /\ wtask' = [wtask EXCEPT ![w] = t]
          /\ wsession' = [wsession EXCEPT ![w] = Restore(wsession[w], t.chk)]
    /\ wstate' = [wstate EXCEPT ![w] = "busy"]
    /\ UNCHANGED <<lexVars, driverVars, pc, queue>>

\* The task returns: its path is pushed to the collector.
WorkerFinish(w) ==
    /\ pc = "start_multi"
    /\ wstate[w] = "busy"
    /\ wtask[w].frame.tree[1] \in {"ok", "err"}
    /\ queue' = Append(queue, IF wtask[w].frame.tree[1] = "ok"
                              THEN OkResult(wtask[w].id, RunLeaf(wsession[w], wtask[w].frame.tree))
                              ELSE ErrResult(wtask[w].id, wsession[w]))
    /\ wstate' = [wstate EXCEPT ![w] = "idle"]
    /\ wtask' = [wtask EXCEPT ![w] = NoTask]
    /\ UNCHANGED <<lexVars, driverVars, pc, pending, wsession>>

\* A conditional.  A concrete guard is followed; a symbolic guard forks: the
\* task is replaced by its feasible siblings, one of which the worker
\* continues with while the others are submitted as pending tasks.
WorkerBranch(w) ==
    /\ pc = "start_multi"
    /\ wstate[w] = "busy"
    /\ wtask[w].frame.tree[1] = "fork"
    /\ LET t == wtask[w]
           g == EvalGuard(t.frame, wsession[w], t.frame.tree[2])
       IN IF ~g.sym
          THEN /\ wtask' = [wtask EXCEPT ![w].frame.tree = Arm(t.frame.tree, g.b)]
               /\ UNCHANGED <<pending, wstate, wsession>>
          ELSE LET parent == Checkpoint(g.session)
                   sibs == {Sibling(t.id, g.frame, wsession[w], parent, g.v, b) : b \in BOOLEAN}
                   live == {x \in sibs : Feasible(x)}
               IN IF live = {}
                  THEN /\ wstate' = [wstate EXCEPT ![w] = "idle"]
                       /\ wtask' = [wtask EXCEPT ![w] = NoTask]
                       /\ UNCHANGED <<pending, wsession>>
                  ELSE \E mine \in live :
                          /\ wtask' = [wtask EXCEPT ![w] = mine]
                          /\ wsession' = [wsession EXCEPT ![w] = Restore(wsession[w], mine.chk)]
                          /\ pending' = Submit(pending, live \ {mine})
                          /\ UNCHANGED wstate
    /\ UNCHANGED <<lexVars, driverVars, pc, queue>>

\* No task is pending and no worker is advancing a task: the worker stops.
WorkerStop(w) ==
    /\ pc = "start_multi"
    /\ wstate[w] = "idle"
    /\ Quiescent
    /\ wstate' = [wstate EXCEPT ![w] = "stopped"]
    /\ UNCHANGED <<lexVars, driverVars, pc, pending, wtask, wsession, queue>>

\* start_multi returns when every worker thread has been joined.
SchedulerDone == \A w \in Workers : wstate[w] = "stopped"

(***************************************************************************)
(* Event paths in the driver (footprint.rs:290-319).  A path arrives most  *)
(* recent event first.                                                     *)
(***************************************************************************)
\* footprint.rs:294-300
IsFootprintEventWithFetch(ev) ==
    \/ ev[1] \in {"read_mem", "write_mem"}
    \/ ev[1] \in {"smt_decl", "smt_def", "smt_assert"}
    \/ ev[1] = "instr"
    \/ ev[1] = "cycle"
    \/ ev[1] = "write_reg"

IsFootprintEvent(ev) ==
    \/ ev[1] \in {"read_mem", "write_mem"} /\ ~(ev[1] = "read_mem" /\ ev[2] = "ifetch")
    \/ ev[1] \in {"smt_decl", "smt_def", "smt_assert"}
    \/ ev[1] = "instr"
    \/ ev[1] = "cycle"
    \/ ev[1] = "write_reg"

\* the solver variables an event refers to
EventUses(ev) ==
    IF ev[1] = "smt_assert" THEN ExpVars(ev[2][2])
    ELSE IF ev[1] = "smt_def" THEN ExpVars(ev[3])
    ELSE IF ev[1] = "read_reg" THEN {ev[3]}
    ELSE {}

IsDefinition(ev) == ev[1] \in {"smt_decl", "smt_def"}

\* simplify::hide_initialization: the register events of the set-up of the
\* architecture state, those before the first cycle marker, are dropped.
\* The path is most recent first: the first cycle has the largest index.
hide_initialization(events) ==
    LET cycles == {i \in 1..Len(events) : events[i][1] = "cycle"}
        first == IF cycles = {} THEN 0 ELSE CHOOSE i \in cycles : \A j \in cycles : j <= i
        kept == {i \in 1..Len(events) :
                    ~(events[i][1] \in {"read_reg", "write_reg"} /\ i > first)}
        Pick(n) == CHOOSE i \in kept : Cardinality({j \in kept : j < i}) = n - 1
    IN [n \in 1..Cardinality(kept) |-> events[Pick(n)]]

\* simplify::remove_unused: a declaration or definition of a variable that
\* no remaining event refers to is dropped, until none is left
RECURSIVE remove_unused(_)
remove_unused(events) ==
    LET used == UNION {EventUses(events[i]) : i \in 1..Len(events)}
        Keep(ev) == ~IsDefinition(ev) \/ ev[2] \in used
        rest == SelectSeq(events, Keep)
    IN IF rest = events THEN events ELSE remove_unused(rest)

\* the number of occurrences of variable v in an expression, in an event
RECURSIVE ExpCount(_, _)
ExpCount(x, v) ==
    IF x[1] = "v" THEN (IF x[2] = v THEN 1 ELSE 0)
    ELSE IF x[1] = "k" THEN 0
    ELSE IF x[1] = "low" THEN ExpCount(x[2], v)
    ELSE ExpCount(x[2], v) + ExpCount(x[3], v)

EventCount(ev, v) ==
    IF ev[1] = "smt_assert" THEN ExpCount(ev[2][2], v)
    ELSE IF ev[1] = "smt_def" THEN ExpCount(ev[3], v)
    ELSE IF ev[1] = "read_reg" /\ ev[3] = v THEN 1
    ELSE 0

RECURSIVE SumCount(_, _)
SumCount(events, v) ==
    IF events = <<>> THEN 0 ELSE EventCount(Head(events), v) + SumCount(Tail(events), v)

\* expression x with y in the place of variable v
RECURSIVE ExpSubst(_, _, _)
ExpSubst(x, v, y) ==
    IF x[1] = "v" THEN (IF x[2] = v THEN y ELSE x)
    ELSE IF x[1] = "k" THEN x
    ELSE IF x[1] = "low" THEN <<"low", ExpSubst(x[2], v, y)>>
    ELSE <<"or", ExpSubst(x[2], v, y), ExpSubst(x[3], v, y)>>

EventSubst(ev, v, y) ==
    IF ev[1] = "smt_assert" THEN <<"smt_assert", <<ev[2][1], ExpSubst(ev[2][2], v, y), ev[2][3]>>>>
    ELSE IF ev[1] = "smt_def" THEN <<"smt_def", ev[2], ExpSubst(ev[3], v, y)>>
    ELSE ev

\* simplify::propagate_forwards_used_once: a defined variable that is
\* referred to exactly once, by a later solver expression, is replaced there
\* by its definition and the definition is dropped
RECURSIVE propagate_forwards_used_once(_)
propagate_forwards_used_once(events) ==
    LET Once(i) ==
            /\ events[i][1] = "smt_def"
            /\ SumCount(events, events[i][2]) = 1
            /\ \E j \in 1..(i - 1) :
                  /\ events[j][1] \in {"smt_def", "smt_assert"}
                  /\ EventCount(events[j], events[i][2]) = 1
        cands == {i \in 1..Len(events) : Once(i)}
    IN IF cands = {} THEN events
       ELSE LET i == CHOOSE c \in cands : \A d \in cands : d <= c
                inlined == [j \in 1..Len(events) |->
                               IF j < i THEN EventSubst(events[j], events[i][2], events[i][3])
                               ELSE events[j]]
            IN propagate_forwards_used_once(
                   SubSeq(inlined, 1, i - 1) \o SubSeq(inlined, i + 1, Len(inlined)))

\* simplify::commute_extract: an extraction applied to a bitwise operation is
\* moved onto the operands
RECURSIVE CommuteExp(_)
CommuteExp(x) ==
    IF x[1] \in {"v", "k"} THEN x
    ELSE IF x[1] = "or" THEN <<"or", CommuteExp(x[2]), CommuteExp(x[3])>>
    ELSE LET y == CommuteExp(x[2])
         IN IF y[1] = "or"
            THEN <<"or", CommuteExp(<<"low", y[2]>>), CommuteExp(<<"low", y[3]>>)>>
            ELSE <<"low", y>>

\* simplify::eval: an expression without variables is replaced by its value
RECURSIVE EvalExp(_)
EvalExp(x) ==
    IF x[1] \in {"v", "k"} THEN x
    ELSE IF x[1] = "low"
    THEN LET y == EvalExp(x[2])
         IN IF y[1] = "k" THEN <<"k", y[2] % 2>> ELSE <<"low", y>>
    ELSE LET y == EvalExp(x[2])
             z == EvalExp(x[3])
         IN IF y[1] = "k" /\ z[1] = "k" THEN <<"k", BitOr(y[2], z[2])>> ELSE <<"or", y, z>>

\* the solver events with their expressions rewritten
CommuteEvent(ev) ==
    IF ev[1] = "smt_assert" THEN <<"smt_assert", <<ev[2][1], CommuteExp(ev[2][2]), ev[2][3]>>>>
    ELSE IF ev[1] = "smt_def" THEN <<"smt_def", ev[2], CommuteExp(ev[3])>>
    ELSE ev

EvalEvent(ev) ==
    IF ev[1] = "smt_assert" THEN <<"smt_assert", <<ev[2][1], EvalExp(ev[2][2]), ev[2][3]>>>>
    ELSE IF ev[1] = "smt_def" THEN <<"smt_def", ev[2], EvalExp(ev[3])>>
    ELSE ev

commute_extract(events) == [i \in 1..Len(events) |-> CommuteEvent(events[i])]

eval(events) == [i \in 1..Len(events) |-> EvalEvent(events[i])]

\* footprint.rs:307-313: the five passes in the order of the driver
SimplifyEventsUnusedFirst(events) ==
    eval(commute_extract(propagate_forwards_used_once(hide_initialization(remove_unused(events)))))

SimplifyEvents(events) ==
    eval(commute_extract(propagate_forwards_used_once(remove_unused(hide_initialization(events)))))

\* footprint.rs:291-304: the path kept for footprint analysis
DependencyPath(events, val) ==
    Append(remove_unused(SelectSeq(Reverse(events), IsFootprintEvent)), <<"instr", val>>)

\* footprint.rs:306-318: the trace written to standard output
PrintedTraceReversedFirst(events, simplify) ==
    <<"trace", IF simplify THEN SimplifyEvents(Reverse(events)) ELSE Reverse(events), ~simplify>>

PrintedTrace(events, simplify) ==
    <<"trace", Reverse(IF simplify THEN SimplifyEvents(events) ELSE events), ~simplify>>

\* footprint_analysis (spec 4.6): the paths of the instruction must agree on
\* the registers they access; the footprint is the union over the paths
PathRegs(path) == {path[i][2] : i \in {j \in 1..Len(path) : path[j][1] \in {"read_reg", "write_reg"}}}

footprint_analysis(ps) ==
    IF \A i, j \in 1..Len(ps) : PathRegs(ps[i]) = PathRegs(ps[j])
    THEN <<"ok", UNION {PathRegs(ps[i]) : i \in 1..Len(ps)}>>
    ELSE <<"err", "paths disagree">>

(***************************************************************************)
(* The driver: main and isla_main (footprint.rs:59-63, 155-351).           *)
(***************************************************************************)
\* exit(n) inside isla_main, or a panic: the process ends there
ProcessExit(n, msg) ==
    /\ pc' = "exited"
    /\ code' = n
    /\ stderr' = Append(stderr, msg)

\* matches.opt_present(f).  The command line is fixed for the run: the value
\* of a flag is fixed when the driver first tests it.
OptPresent(f) == IF f \in DOMAIN flags THEN {flags[f]} ELSE BOOLEAN
Tested(f, b) == [x \in (DOMAIN flags) \cup {f} |-> IF x = f THEN b ELSE flags[x]]

\* footprint.rs:178-225
DriverEncode ==
    /\ pc = "encode"
    /\ LET r == Encode(opts)
       IN CASE r[1] = "exit" -> ProcessExit(1, <<"fatal", r[2]>>) /\ UNCHANGED opcode
            [] r[1] = "panic" -> ProcessExit(101, <<"panic", r[2]>>) /\ UNCHANGED opcode
            [] r[1] = "return" -> /\ pc' = "returned"
                                  /\ code' = 1
                                  /\ stderr' = Append(stderr, <<"fatal", r[2]>>)
                                  /\ UNCHANGED opcode
            [] OTHER -> /\ opcode' = r[2]
                        /\ pc' = "solver_setup"
                        /\ stderr' = Append(stderr, <<"opcode">>)
                        /\ UNCHANGED code
    /\ UNCHANGED <<lexVars, opts, flags, prog, opcode_val, solver, initial_checkpoint, qhead, paths,
                   stdout, finalized, schedVars>>

\* footprint.rs:263-266
DriverSolver ==
    /\ pc = "solver_setup"
    /\ LET r == instruction_to_val(opcode, opts.constraints, EmptySession)
       IN /\ solver' = [st |-> "open", s |-> r.session]
          /\ IF r.panic
             THEN ProcessExit(101, <<"panic", "instruction_to_val">>) /\ UNCHANGED opcode_val
             ELSE /\ opcode_val' = r.val
                  /\ pc' = "checkpoint"
                  /\ UNCHANGED <<code, stderr>>
    /\ UNCHANGED <<lexVars, opts, flags, prog, opcode, initial_checkpoint, qhead, paths, stdout,
                   finalized, schedVars>>

\* footprint.rs:267-268: the checkpoint leaves the block, the solver is dropped
CheckpointBeforeSetup(s) == Checkpoint(EmptySession)

CheckpointOfBlock(s) == Checkpoint(s)

DriverCheckpoint ==
    /\ pc = "checkpoint"
    /\ initial_checkpoint' = CheckpointOfBlock(solver.s)
    /\ solver' = [st |-> "dropped", s |-> EmptySession]
    /\ pc' = "build_task"
    /\ UNCHANGED <<lexVars, opts, flags, prog, opcode, opcode_val, qhead, paths, stdout, stderr, code,
                   finalized, schedVars>>

\* footprint.rs:270-282: the initial task; start_multi starts the workers
InitialTask == [id |-> 0, frame |-> NewFrame(prog, opcode_val), chk |-> initial_checkpoint]

StartMulti ==
    /\ pc = "build_task"
    /\ pending' = SetToBag({InitialTask})
    /\ wstate' = [w \in Workers |-> "idle"]
    /\ pc' = "start_multi"
    /\ UNCHANGED <<lexVars, driverVars, wtask, wsession, queue>>

\* footprint.rs:282-283: start_multi returns
ReturnsBeforeJoin == \E w \in Workers : wstate[w] = "stopped"

ReturnsToDriver == SchedulerDone

StartMultiReturn ==
    /\ pc = "start_multi"
    /\ ReturnsToDriver
    /\ pc' = "drain"
    /\ stderr' = Append(stderr, <<"took">>)
    /\ UNCHANGED <<lexVars, opts, flags, prog, opcode, opcode_val, solver, initial_checkpoint, qhead,
                   paths, stdout, code, finalized, schedVars>>

\* queue.pop() finds the queue empty
QueueEmptyEarly == qhead >= 1 \/ qhead = Len(queue)
QueueEmpty == qhead = Len(queue)

\* footprint.rs:323
AbortNever(continue_on_error) == FALSE
AbortAlways(continue_on_error) == TRUE
AbortOnError(continue_on_error) == ~continue_on_error

\* footprint.rs:290: the guard of the first arm of the match
DependencyArmUnlessSimplify(dependency, simplify) == dependency /\ ~simplify

DependencyArm(dependency, simplify) == dependency

\* footprint.rs:289-319: a path is popped
DrainOk ==
    /\ pc = "drain"
    /\ ~QueueEmpty
    /\ queue[qhead + 1][1] = "ok"
    /\ qhead' = qhead + 1
    /\ \E dependency \in OptPresent("dependency"), simplify \in OptPresent("simplify") :
          /\ flags' = [x \in (DOMAIN flags) \cup {"dependency", "simplify"} |->
                          IF x = "dependency" THEN dependency
                          ELSE IF x = "simplify" THEN simplify ELSE flags[x]]
          /\ IF DependencyArm(dependency, simplify)
             THEN /\ paths' = Append(paths, DependencyPath(queue[qhead + 1][3], opcode_val))
                  /\ UNCHANGED stdout
             ELSE /\ stdout' = Append(stdout, PrintedTrace(queue[qhead + 1][3], simplify))
                  /\ UNCHANGED paths
    /\ UNCHANGED <<lexVars, opts, prog, pc, opcode, opcode_val, solver, initial_checkpoint, stderr, code,
                   finalized, schedVars>>

\* footprint.rs:321-326: an execution error is popped
DrainErr ==
    /\ pc = "drain"
    /\ ~QueueEmpty
    /\ queue[qhead + 1][1] = "err"
    /\ qhead' = qhead + 1
    /\ stderr' = Append(stderr, <<"exec", queue[qhead + 1][2]>>)
    /\ \E continue_on_error \in OptPresent("continue-on-error") :
          /\ flags' = Tested("continue-on-error", continue_on_error)
          /\ IF AbortOnError(continue_on_error)
             THEN pc' = "returned" /\ code' = 1
             ELSE UNCHANGED <<pc, code>>
    /\ UNCHANGED <<lexVars, opts, prog, opcode, opcode_val, solver, initial_checkpoint, paths, stdout,
                   finalized, schedVars>>

\* footprint.rs:328: Err(_) => break
DrainBreak ==
    /\ pc = "drain"
    /\ QueueEmpty
    /\ pc' = "footprint"
    /\ UNCHANGED <<lexVars, driverVars, schedVars>>

\* footprint.rs:343: the analysis returned Err
FootprintFailedNever(r) == FALSE

FootprintFailed(r) == r[1] = "err"

\* footprint.rs:332-350
Footprint ==
    /\ pc = "footprint"
    /\ pc' = "returned"
    /\ \E dependency \in OptPresent("dependency") :
          /\ flags' = Tested("dependency", dependency)
          /\ IF dependency
             THEN LET r == footprint_analysis(paths)
                  IN IF FootprintFailed(r)
                     THEN /\ stderr' = Append(stderr, <<"fatal", r[2]>>)
                          /\ code' = 1
                          /\ UNCHANGED stdout
                     ELSE /\ stdout' = Append(stdout, <<"footprint", r[2]>>)
                          /\ code' = 0
                          /\ UNCHANGED stderr
             ELSE code' = 0 /\ UNCHANGED <<stdout, stderr>>
    /\ UNCHANGED <<lexVars, opts, prog, opcode, opcode_val, solver, initial_checkpoint, qhead, paths,
                   finalized, schedVars>>

\* footprint.rs:61: isla_main has returned its code
Finalize ==
    /\ pc = "returned"
    /\ finalized' = finalized + 1
    /\ pc' = "finalize_done"
    /\ UNCHANGED <<lexVars, opts, flags, prog, opcode, opcode_val, solver, initial_checkpoint, qhead,
                   paths, stdout, stderr, code, schedVars>>

\* footprint.rs:62
Exit ==
    /\ pc = "finalize_done"
    /\ pc' = "exited"
    /\ UNCHANGED <<lexVars, driverVars, schedVars>>

(***************************************************************************)
(* Command lines.  The instruction arguments cover each way the encoding   *)
(* can end; assembled is the answer of the external assembler.             *)
(***************************************************************************)
Input(mode, instruction, endianness, constraints, assembled) ==
    [mode |-> mode, instruction |-> instruction, endianness |-> endianness,
     constraints |-> constraints, assembled |-> assembled]

NoAsm == <<"err">>

Inputs ==
    { Input("hex", <<"0", "0">>, "none", <<>>, NoAsm),
      Input("hex", <<"0", "1", "0", "0">>, "big", <<>>, NoAsm),
      Input("hex", <<"+", "1">>, "none", <<>>, NoAsm),
      Input("hex", <<"0", "g">>, "none", <<>>, NoAsm),
      Input("hex", <<"0", "1", "0">>, "none", <<>>, NoAsm),
      Input("hex", [i \in 1..(2 * 9) |-> "0"], "none", <<>>, NoAsm),
      Input("hex", <<"0", "0">>, "middle", <<>>, NoAsm),
      Input("partial", <<"1", " ", "r", ":", "1">>, "none", <<>>, NoAsm),
      Input("partial", <<"1", " ", "r", ":", "2">>, "none", <<<<"eq", <<"r">>, 2>>>>, NoAsm),
      Input("partial", <<"r", ":", "1">>, "none", <<<<"eq", <<"r">>, 0>>, <<"eq", <<"r">>, 1>>>>, NoAsm),
      Input("partial", <<"r", ":", "x">>, "none", <<>>, NoAsm),
      Input("asm", <<"n", "o", "p">>, "none", <<>>, <<"ok", <<1>>>>),
      Input("asm", <<"n", "o", "p">>, "none", <<>>, NoAsm) }

Options ==
    { [mode |-> i.mode, instruction |-> i.instruction, endianness |-> i.endianness,
       constraints |-> i.constraints, assembled |-> i.assembled,
       num_threads |-> n]
      : i \in Inputs, n \in 1..MaxThreads }

\* The state on entry to main, for a set of command lines and of functions
InitWith(O, P) ==
    /\ opts \in O
    /\ flags = <<>>
    /\ prog \in P
    /\ pc = "encode"
    /\ opcode = <<>>
    /\ opcode_val = <<"bits", 0, 0>>
    /\ solver = [st |-> "none", s |-> EmptySession]
    /\ initial_checkpoint = EmptySession
    /\ pending = EmptyBag
    /\ wstate = [w \in Workers |-> "unstarted"]
    /\ wtask = [w \in Workers |-> NoTask]
    /\ wsession = [w \in Workers |-> EmptySession]
    /\ queue = <<>>
    /\ qhead = 0
    /\ paths = <<>>
    /\ stdout = <<>>
    /\ stderr = <<>>
    /\ code = 0
    /\ finalized = 0
    /\ LexerOver(<<>>)

Init == InitWith(Options, Programs)

Next ==
    \/ DriverEncode
    \/ DriverSolver
    \/ DriverCheckpoint
    \/ StartMulti
    \/ \E w \in Workers : WorkerTake(w)
    \/ \E w \in Workers : WorkerFinish(w)
    \/ \E w \in Workers : WorkerBranch(w)
    \/ \E w \in Workers : WorkerStop(w)
    \/ StartMultiReturn
    \/ DrainOk
    \/ DrainErr
    \/ DrainBreak
    \/ Footprint
    \/ Finalize
    \/ Exit

Spec == Init /\ [][Next]_vars

\* The worker threads are scheduled by the operating system: a worker step
\* that stays possible is eventually taken.
WorkerStep ==
    \E w \in Workers : WorkerTake(w) \/ WorkerFinish(w) \/ WorkerBranch(w) \/ WorkerStop(w)

FairSpec == Spec /\ WF_vars(WorkerStep)

(***************************************************************************)
(* The set-up of a run alone (footprint.rs:178-268), over a wider set of   *)
(* command lines: hexadecimal opcodes of one to four bytes (and one of     *)
(* eight) with each endianness, and every partial instruction of up to     *)
(* MaxSegments segments with each list of constraints.  Opcode values stay *)
(* below 2^31.                                                             *)
(***************************************************************************)
ByteTexts == {<<"0", "0">>, <<"0", "1">>, <<"7", "f">>}
OpcodeLengths == {1, 2, 3, 4}

RECURSIVE HexTexts(_)
HexTexts(n) ==
    IF n = 0 THEN {<<>>} ELSE {b \o t : b \in ByteTexts, t \in HexTexts(n - 1)}

SegmentTexts == {<<"1">>, <<"r", ":", "1">>, <<"r", ":", "2">>, <<"q", ":", "1">>}

RECURSIVE PartialTexts(_)
PartialTexts(n) ==
    IF n = 1 THEN SegmentTexts
    ELSE {t \o <<" ">> \o g : t \in PartialTexts(n - 1), g \in SegmentTexts}

ConstraintLists ==
    { <<>>,
      <<<<"eq", <<"r">>, 0>>>>,
      <<<<"eq", <<"q">>, 1>>>>,
      <<<<"eq", <<"r">>, 1>>, <<"eq", <<"q">>, 0>>>>,
      <<<<"malformed">>>> }

SetupInputs ==
    {Input("hex", t, e, <<>>, NoAsm) :
        t \in UNION {HexTexts(n) : n \in OpcodeLengths} \cup {[i \in 1..16 |-> IF i = 16 THEN "1" ELSE "0"]},
        e \in {"none", "little", "big"}}
    \cup {Input("hex", <<"0", "1">>, "none", <<<<"eq", <<"r">>, 0>>>>, NoAsm)}
    \cup {Input("partial", t, "none", cs, NoAsm) :
             t \in UNION {PartialTexts(n) : n \in 1..MaxSegments}, cs \in ConstraintLists}

SetupOptions ==
    { [mode |-> i.mode, instruction |-> i.instruction, endianness |-> i.endianness,
       constraints |-> i.constraints, assembled |-> i.assembled, num_threads |-> 1]
      : i \in SetupInputs }

SetupInit == InitWith(SetupOptions, {<<"ok">>})

SetupNext ==
    \/ DriverEncode
    \/ DriverSolver
    \/ DriverCheckpoint

SetupSpec == SetupInit /\ [][SetupNext]_vars

(***************************************************************************)
(* The drain loop alone (footprint.rs:288-350), over a wider set of paths  *)
(* in the collector: every well-formed sequence of up to MaxPathLen of the *)
(* events below (a variable is declared or defined once, before its uses). *)
(***************************************************************************)
PathEvents ==
    { <<"smt_decl", 0, 1>>,
      <<"smt_def", 1, <<"or", <<"v", 0>>, <<"k", 0>>>>>>,
      <<"smt_assert", <<"bit0", <<"low", <<"v", 1>>>>, TRUE>>>>,
      <<"smt_assert", <<"eq", <<"or", <<"k", 0>>, <<"k", 1>>>>, 1>>>>,
      <<"read_reg", 1, 0>>,
      <<"write_reg", 0>>,
      <<"cycle">>,
      <<"read_mem", "ifetch">>,
      <<"read_mem", "plain">>,
      <<"instr", <<"bits", 1, 8>>>> }

DefinedVar(ev) == IF IsDefinition(ev) THEN {ev[2]} ELSE {}

\* c is in chronological order
WellFormedPath(c) ==
    \A i \in 1..Len(c) :
       /\ EventUses(c[i]) \subseteq UNION {DefinedVar(c[j]) : j \in 1..(i - 1)}
       /\ \A j \in 1..(i - 1) : DefinedVar(c[i]) \cap DefinedVar(c[j]) = {}

CollectedPaths ==
    UNION {{c \in [1..n -> PathEvents] : WellFormedPath(c)} : n \in 1..MaxPathLen}

DrainInit ==
    /\ opts \in {[mode |-> "hex", instruction |-> <<"0", "1">>, endianness |-> "none",
                  constraints |-> <<>>, assembled |-> NoAsm, num_threads |-> 1]}
    /\ flags = <<>>
    /\ prog = <<"ok">>
    /\ pc = "drain"
    /\ opcode = <<<<"c", 1, 8>>>>
    /\ opcode_val = <<"bits", 1, 8>>
    /\ solver = [st |-> "dropped", s |-> EmptySession]
    /\ initial_checkpoint = EmptySession
    /\ pending = EmptyBag
    /\ wstate = [w \in Workers |-> "stopped"]
    /\ wtask = [w \in Workers |-> NoTask]
    /\ wsession = [w \in Workers |-> EmptySession]
    /\ queue \in {<<<<"ok", 0, Reverse(c)>>>> : c \in CollectedPaths}
    /\ qhead = 0
    /\ paths = <<>>
    /\ stdout = <<>>
    /\ stderr = <<<<"opcode">>, <<"took">>>>
    /\ code = 0
    /\ finalized = 0
    /\ LexerOver(<<>>)

DrainNext ==
    \/ DrainOk
    \/ DrainBreak
    \/ Footprint
    \/ Finalize
    \/ Exit

DrainSpec == DrainInit /\ [][DrainNext]_vars

(***************************************************************************)
(* The lexer of the IR text (ir_lexer.rs).  A text is a sequence of        *)
(* characters, a Lexer holds the text still to be read (buf) and the       *)
(* number of characters read (pos).  A token without payload is <<name>>,  *)
(* a token with payload is <<name, text>>.  The backquote character is     *)
(* written "backquote".                                                    *)
(***************************************************************************)
Keyword(kw, tok) == [word |-> kw, token |-> tok, len |-> Len(kw)]

KEYWORDS ==
    << Keyword(<<":", ":", "<">>, <<"TurboFish">>),
       Keyword(<<"backquote">>, <<"Backtick">>),
       Keyword(<<">">>, <<"Gt">>),
       Keyword(<<"(", ")">>, <<"Unit">>),
       Keyword(<<"-", ">">>, <<"Arrow">>),
       Keyword(<<"&">>, <<"Amp">>),
       Keyword(<<"(">>, <<"Lparen">>),
       Keyword(<<")">>, <<"Rparen">>),
       Keyword(<<"{">>, <<"Lbrace">>),
       Keyword(<<"}">>, <<"Rbrace">>),
       Keyword(<<".">>, <<"Dot">>),
       Keyword(<<"*">>, <<"Star">>),
       Keyword(<<":">>, <<"Colon">>),
       Keyword(<<"=">>, <<"Eq">>),
       Keyword(<<",">>, <<"Comma">>),
       Keyword(<<";">>, <<"Semi">>),
       Keyword(<<"$">>, <<"Dollar">>),
       Keyword(<<"b", "i", "t", "z", "e", "r", "o">>, <<"Bitzero">>),
       Keyword(<<"b", "i", "t", "o", "n", "e">>, <<"Bitone">>),
       Keyword(<<"-">>, <<"Minus">>),
       Keyword(<<"s", "t", "r", "u", "c", "t">>, <<"Struct">>),
       Keyword(<<"i", "s">>, <<"Is">>),
       Keyword(<<"a", "s">>, <<"As">>),
       Keyword(<<"j", "u", "m", "p">>, <<"Jump">>),
       Keyword(<<"g", "o", "t", "o">>, <<"Goto">>),
       Keyword(<<"m", "o", "n", "o">>, <<"Mono">>),
       Keyword(<<"f", "a", "i", "l", "u", "r", "e">>, <<"Failure">>),
       Keyword(<<"a", "r", "b", "i", "t", "r", "a", "r", "y">>, <<"Arbitrary">>),
       Keyword(<<"u", "n", "d", "e", "f", "i", "n", "e", "d">>, <<"Undefined">>),
       Keyword(<<"e", "n", "d">>, <<"End">>),
       Keyword(<<"r", "e", "g", "i", "s", "t", "e", "r">>, <<"Register">>),
       Keyword(<<"f", "n">>, <<"Fn">>),
       Keyword(<<"l", "e", "t">>, <<"Let">>),
       Keyword(<<"e", "n", "u", "m">>, <<"Enum">>),
       Keyword(<<"u", "n", "i", "o", "n">>, <<"Union">>),
       Keyword(<<"v", "a", "l">>, <<"Val">>),
       Keyword(<<"%", "i">>, <<"TyI">>),
       Keyword(<<"%", "u", "n", "i", "t">>, <<"TyUnit">>),
       Keyword(<<"%", "b", "o", "o", "l">>, <<"TyBool">>),
       Keyword(<<"%", "b", "i", "t">>, <<"TyBit">>),
       Keyword(<<"%", "s", "t", "r", "i", "n", "g">>, <<"TyString">>),
       Keyword(<<"%", "r", "e", "a", "l">>, <<"TyReal">>),
       Keyword(<<"%", "e", "n", "u", "m">>, <<"TyEnum">>),
       Keyword(<<"%", "s", "t", "r", "u", "c", "t">>, <<"TyStruct">>),
       Keyword(<<"%", "u", "n", "i", "o", "n">>, <<"TyUnion">>),
       Keyword(<<"%", "v", "e", "c">>, <<"TyVec">>),
       Keyword(<<"%", "f", "v", "e", "c">>, <<"TyFVec">>),
       Keyword(<<"%", "l", "i", "s", "t">>, <<"TyList">>),
       Keyword(<<"%", "b", "v">>, <<"TyBv">>),
       Keyword(<<"@", "s", "l", "i", "c", "e">>, <<"OpSlice">>),
       Keyword(<<"@", "s", "e", "t", "_", "s", "l", "i", "c", "e">>, <<"OpSetSlice">>),
       Keyword(<<"@", "c", "o", "n", "c", "a", "t">>, <<"OpConcat">>),
       Keyword(<<"@", "u", "n", "s", "i", "g", "n", "e", "d">>, <<"OpUnsigned">>),
       Keyword(<<"@", "s", "i", "g", "n", "e", "d">>, <<"OpSigned">>),
       Keyword(<<"@", "n", "o", "t">>, <<"OpNot">>),
       Keyword(<<"@", "o", "r">>, <<"OpOr">>),
       Keyword(<<"@", "a", "n", "d">>, <<"OpAnd">>),
       Keyword(<<"@", "e", "q">>, <<"OpEq">>),
       Keyword(<<"@", "n", "e", "q">>, <<"OpNeq">>),
       Keyword(<<"@", "b", "v", "n", "o", "t">>, <<"OpBvnot">>),
       Keyword(<<"@", "b", "v", "o", "r">>, <<"OpBvor">>),
       Keyword(<<"@", "b", "v", "x", "o", "r">>, <<"OpBvor">>),
       Keyword(<<"@", "b", "v", "a", "n", "d">>, <<"OpBvand">>),
       Keyword(<<"@", "b", "v", "a", "d", "d">>, <<"OpBvadd">>),
       Keyword(<<"@", "b", "v", "s", "u", "b">>, <<"OpBvsub">>),
       Keyword(<<"@", "b", "v", "a", "c", "c", "e", "s", "s">>, <<"OpBvaccess">>),
       Keyword(<<"@", "l", "t", "e", "q">>, <<"OpLteq">>),
       Keyword(<<"@", "l", "t">>, <<"OpLt">>),
       Keyword(<<"@", "g", "t", "e", "q">>, <<"OpGteq">>),
       Keyword(<<"@", "g", "t">>, <<"OpGt">>),
       Keyword(<<"@", "h", "d">>, <<"OpHead">>),
       Keyword(<<"@", "t", "l">>, <<"OpTail">>),
       Keyword(<<"@", "i", "a", "d", "d">>, <<"OpAdd">>),
       Keyword(<<"@", "i", "s", "u", "b">>, <<"OpSub">>),
       Keyword(<<"b", "i", "t", "z", "e", "r", "o">>, <<"Bitzero">>),
       Keyword(<<"b", "i", "t", "o", "n", "e">>, <<"Bitone">>),
       Keyword(<<"t", "r", "u", "e">>, <<"True">>),
       Keyword(<<"f", "a", "l", "s", "e">>, <<"False">>) >>

Drop(s, n) == SubSeq(s, n + 1, Len(s))

starts_with(buf, word) == Len(word) <= Len(buf) /\ SubSeq(buf, 1, Len(word)) = word

\* The table searched from its last entry to its first
LastKeyword(buf) ==
    LET hits == {i \in DOMAIN KEYWORDS : starts_with(buf, KEYWORDS[i].word)}
    IN IF hits = {} THEN 0 ELSE CHOOSE i \in hits : \A j \in hits : i >= j

\* Index of the first entry of the table whose word begins buf, 0 when none
\* does: the loop over KEYWORDS returns at its first hit
FirstKeyword(buf) ==
    LET hits == {i \in DOMAIN KEYWORDS : starts_with(buf, KEYWORDS[i].word)}
    IN IF hits = {} THEN 0 ELSE CHOOSE i \in hits : \A j \in hits : i <= j

\* Character classes of the helpers of lexer.rs
Whitespace == {" ", "\t", "\n", "\r"}

Lower == {"a", "b", "c", "d", "e", "f", "g", "h", "i", "j", "k", "l",
          "m", "n", "o", "p", "q", "r", "s", "t", "u", "v", "w", "x", "y", "z"}

Upper == {"A", "B", "C", "D", "E", "F", "G", "H", "I", "J", "K", "L",
          "M", "N", "O", "P", "Q", "R", "S", "T", "U", "V", "W", "X", "Y", "Z"}

Digit == {"0", "1", "2", "3", "4", "5", "6", "7", "8", "9"}

HexDigit == Digit \cup {"a", "b", "c", "d", "e", "f", "A", "B", "C", "D", "E", "F"}

\* Number of characters of buf from index i on that lie in class
RECURSIVE RunOf(_, _, _)
RunOf(buf, i, class) ==
    IF i <= Len(buf) /\ buf[i] \in class THEN 1 + RunOf(buf, i + 1, class) ELSE 0

\* Length of the match of an anchored pattern at the start of buf, 0 when it
\* does not match: an identifier, #x or 0x and hex digits, #b or 0b and
\* binary digits, an optionally negative decimal number
ID_REGEX(buf) ==
    IF buf # <<>> /\ buf[1] \in Lower \cup Upper \cup {"_"}
    THEN 1 + RunOf(buf, 2, Lower \cup Upper \cup Digit \cup {"_"})
    ELSE 0

Prefixed(buf, letter, class) ==
    IF Len(buf) >= 3 /\ buf[1] \in {"#", "0"} /\ buf[2] = letter /\ buf[3] \in class
    THEN 2 + RunOf(buf, 3, class)
    ELSE 0

HEX_REGEX(buf) == Prefixed(buf, "x", HexDigit)

BIN_REGEX(buf) == Prefixed(buf, "b", {"0", "1"})

NAT_REGEX(buf) ==
    LET sign == IF buf # <<>> /\ buf[1] = "-" THEN 1 ELSE 0
        n == RunOf(buf, sign + 1, Digit)
    IN IF n = 0 THEN 0 ELSE sign + n

\* consume_whitespace: skips leading whitespace; none when the text runs out
RECURSIVE consume_whitespace(_)
consume_whitespace(l) ==
    IF l.buf = <<>> THEN [some |-> FALSE, lexer |-> l]
    ELSE IF Head(l.buf) \in Whitespace
         THEN consume_whitespace([buf |-> Tail(l.buf), pos |-> l.pos + 1])
         ELSE [some |-> TRUE, lexer |-> l]

\* consume_regex, for a match of n characters: the matched text with the
\* positions before and after it, and the lexer moved past it
consume_regex(l, n) ==
    [some |-> n > 0, from |-> l.pos, text |-> SubSeq(l.buf, 1, n), to |-> l.pos + n,
     lexer |-> [buf |-> Drop(l.buf, n), pos |-> l.pos + n]]

\* consume_string_literal: a double quote, the text up to the next double
\* quote, and that quote; none when the text does not start with a quote or
\* the literal is not closed
consume_string_literal(l) ==
    LET closes == {j \in 2..Len(l.buf) : l.buf[j] = "\""}
    IN IF l.buf # <<>> /\ l.buf[1] = "\"" /\ closes # {}
       THEN LET j == CHOOSE c \in closes : \A d \in closes : c <= d
            IN [some |-> TRUE, from |-> l.pos, text |-> SubSeq(l.buf, 2, j - 1),
                to |-> l.pos + j, lexer |-> [buf |-> Drop(l.buf, j), pos |-> l.pos + j]]
       ELSE [some |-> FALSE, from |-> l.pos, text |-> <<>>, to |-> l.pos, lexer |-> l]

\* A keyword arm that moves the position and leaves the buffer where it was
KeywordArmKeepsBuf(l, start_pos, k) ==
    [item |-> <<"ok", start_pos, k.token, l.pos + k.len>>,
     lexer |-> [buf |-> l.buf, pos |-> l.pos + k.len]]

\* The keyword arm of next (ir_lexer.rs:228-234) for table entry k
KeywordArm(l, start_pos, k) ==
    LET moved == [buf |-> Drop(l.buf, k.len), pos |-> l.pos + k.len]
    IN [item |-> <<"ok", start_pos, k.token, moved.pos>>, lexer |-> moved]

\* An error arm that steps over the character it could not read
ErrorArmSkips(l) ==
    [item |-> <<"err", l.pos>>, lexer |-> [buf |-> Tail(l.buf), pos |-> l.pos + 1]]

\* The last arm of next (ir_lexer.rs:261): the error carries the position,
\* the lexer is left as it is
ErrorArm(l) == [item |-> <<"err", l.pos>>, lexer |-> l]

\* The token of a literal arm: Hex and Bin drop the two characters of the prefix
Literal(name, m, skip) ==
    [item |-> <<"ok", m.from, <<name, Drop(m.text, skip)>>, m.to>>, lexer |-> m.lexer]

\* Lexer::next (ir_lexer.rs:223-262): the item returned and the lexer after
\* the call.  The item is <<"none">>, <<"ok", start, token, end>> or
\* <<"err", pos>>.
Lexer_next(lexer0) ==
    LET ws == consume_whitespace(lexer0)
        l == ws.lexer
        start_pos == l.pos
        k == FirstKeyword(l.buf)
        id == consume_regex(l, ID_REGEX(l.buf))
        hex == consume_regex(l, HEX_REGEX(l.buf))
        bin == consume_regex(l, BIN_REGEX(l.buf))
        nat == consume_regex(l, NAT_REGEX(l.buf))
        str == consume_string_literal(l)
    IN CASE ~ws.some -> [item |-> <<"none">>, lexer |-> l]
         [] ws.some /\ k # 0 -> KeywordArm(l, start_pos, KEYWORDS[k])
         [] ws.some /\ k = 0 /\ id.some -> Literal("Id", id, 0)
         [] ws.some /\ k = 0 /\ ~id.some /\ hex.some -> Literal("Hex", hex, 2)
         [] ws.some /\ k = 0 /\ ~id.some /\ ~hex.some /\ bin.some -> Literal("Bin", bin, 2)
         [] ws.some /\ k = 0 /\ ~id.some /\ ~hex.some /\ ~bin.some /\ nat.some ->
                Literal("Nat", nat, 0)
         [] ws.some /\ k = 0 /\ ~id.some /\ ~hex.some /\ ~bin.some /\ ~nat.some /\ str.some ->
                Literal("String", str, 0)
         [] OTHER -> ErrorArm(l)

\* One call of next on the lexer; lexed keeps, for every call, the lexer
\* before it, the item returned and the lexer after it
LexerNext ==
    /\ Len(lexed) < MaxCalls
    /\ LET r == Lexer_next(lexer)
       IN /\ lexer' = r.lexer
          /\ lexed' = Append(lexed, [before |-> lexer, item |-> r.item, after |-> r.lexer])
    /\ UNCHANGED <<source, driverVars, schedVars, pc>>

(***************************************************************************)
(* The lexer alone, over IR texts: every keyword of the table on its own,  *)
(* and every text made of up to MaxLexemes of the pieces below.            *)
(***************************************************************************)
LexPieces ==
    { <<" ">>,
      <<"\n">>,
      <<"@", "b", "v", "x", "o", "r">>,
      <<"@", "b", "v", "o", "r">>,
      <<"@", "l", "t", "e", "q">>,
      <<"@", "l", "t">>,
      <<"(">>,
      <<"(", ")">>,
      <<"-", ">">>,
      <<"-">>,
      <<":", ":", "<">>,
      <<":">>,
      <<"i", "s">>,
      <<"x", "_", "1">>,
      <<"A", "b">>,
      <<"0", "x", "1", "f">>,
      <<"#", "b", "0", "1">>,
      <<"0", "b">>,
      <<"1", "2">>,
      <<"\"", "a", " ", "b", "\"">>,
      <<"\"">>,
      <<"?">>,
      <<"#">>,
      <<"@">> }

RECURSIVE TextsOf(_)
TextsOf(n) ==
    IF n = 0 THEN {<<>>} ELSE {<<>>} \cup {p \o t : p \in LexPieces, t \in TextsOf(n - 1)}

LexInputs == {KEYWORDS[i].word : i \in DOMAIN KEYWORDS} \cup TextsOf(MaxLexemes)

LexInit ==
    /\ opts \in {[mode |-> "hex", instruction |-> <<"0", "1">>, endianness |-> "none",
                  constraints |-> <<>>, assembled |-> NoAsm, num_threads |-> 1]}
    /\ flags = <<>>
    /\ prog = <<"ok">>
    /\ pc = "encode"
    /\ opcode = <<>>
    /\ opcode_val = <<"bits", 0, 0>>
    /\ solver = [st |-> "none", s |-> EmptySession]
    /\ initial_checkpoint = EmptySession
    /\ pending = EmptyBag
    /\ wstate = [w \in Workers |-> "unstarted"]
    /\ wtask = [w \in Workers |-> NoTask]
    /\ wsession = [w \in Workers |-> EmptySession]
    /\ queue = <<>>
    /\ qhead = 0
    /\ paths = <<>>
    /\ stdout = <<>>
    /\ stderr = <<>>
    /\ code = 0
    /\ finalized = 0
    /\ \E input \in LexInputs : LexerOver(input)

LexNext == LexerNext

LexSpec == LexInit /\ [][LexNext]_vars

(***************************************************************************)
(* Two references for the exploration.  Explore is the depth-first run of  *)
(* one thread.  FeasibleLeaves runs the function concretely, once for each *)
(* value of the opcode fields that meets the instruction constraints and   *)
(* each value of the registers.                                            *)
(***************************************************************************)
RECURSIVE Explore(_)
Explore(task) ==
    LET s == Restore(EmptySession, task.chk)
        tree == task.frame.tree
    IN IF tree[1] = "ok" THEN <<OkResult(task.id, RunLeaf(s, tree))>>
       ELSE IF tree[1] = "err" THEN <<ErrResult(task.id, s)>>
       ELSE LET g == EvalGuard(task.frame, s, tree[2])
            IN IF ~g.sym
               THEN Explore([task EXCEPT !.frame.tree = Arm(tree, g.b)])
               ELSE LET side(b) ==
                            LET sib == Sibling(task.id, g.frame, EmptySession,
                                               Checkpoint(g.session), g.v, b)
                            IN IF Feasible(sib) THEN Explore(sib) ELSE <<>>
                    IN side(TRUE) \o side(FALSE)

SymbolicSegments == {i \in 1..Len(opcode) : opcode[i][1] = "s"}
FieldNames == {opcode[i][2] : i \in SymbolicSegments}
FieldSize(n) == opcode[CHOOSE i \in SymbolicSegments : opcode[i][2] = n][3]
AppliedConstraints ==
    IF Len(opcode) = 1 /\ opcode[1][1] = "c" THEN {}
    ELSE {opts.constraints[i] : i \in 1..Len(opts.constraints)}

FieldValues ==
    {a \in [FieldNames -> UNION {0..(Pow2(FieldSize(n)) - 1) : n \in FieldNames}] :
        /\ \A n \in FieldNames : a[n] < Pow2(FieldSize(n))
        /\ \A c \in AppliedConstraints : a[c[2]] = c[3]}

OpcodeLowBit(a) ==
    IF opcode = <<>> THEN FALSE
    ELSE LET seg == opcode[Len(opcode)]
         IN IF seg[1] = "c" THEN seg[2] % 2 = 1 ELSE a[seg[2]] % 2 = 1

Worlds == {[op |-> OpcodeLowBit(a), regs |-> rb] : a \in FieldValues, rb \in [Regs -> BOOLEAN]}

\* the leaf a concrete run ends in: its kind and the arms taken to it
RECURSIVE ConcreteLeaf(_, _, _)
ConcreteLeaf(tree, world, arms) ==
    IF tree[1] # "fork" THEN <<tree[1], arms>>
    ELSE LET b == IF tree[2] = 0 THEN world.op ELSE world.regs[tree[2]]
         IN ConcreteLeaf(Arm(tree, b), world, Append(arms, b))

FeasibleLeaves == {ConcreteLeaf(prog, w, <<>>) : w \in Worlds}
FeasibleOfKind(k) == Cardinality({l \in FeasibleLeaves : l[1] = k})

\* the tasks in flight
TasksInFlight == BagToSet(pending) \cup {wtask[w] : w \in {x \in Workers : wstate[x] = "busy"}}

\* the path condition recorded in a path: the session its events describe
IsDecl(ev) == ev[1] = "smt_decl"
IsAssert(ev) == ev[1] = "smt_assert"
RecordedSession(events) ==
    LET chron == Reverse(events)
        decls == SelectSeq(chron, IsDecl)
        asserts == SelectSeq(chron, IsAssert)
    IN [decls |-> Len(decls),
        sizes |-> [i \in 1..Len(decls) |-> decls[i][3]],
        asserts |-> {asserts[i][2] : i \in 1..Len(asserts)},
        trace |-> chron]

\* start_multi has been called
Started == \E w \in Workers : wstate[w] # "unstarted"

(***************************************************************************)
(* Vocabulary of the properties.                                           *)
(***************************************************************************)
FlagSet(f) == f \in DOMAIN flags /\ flags[f]
FlagClear(f) == f \in DOMAIN flags /\ ~flags[f]

IsOk(r) == r[1] = "ok"
IsErr(r) == r[1] = "err"
OkEntries(q) == SelectSeq(q, IsOk)
ErrEntries(q) == SelectSeq(q, IsErr)
Popped == SubSeq(queue, 1, qhead)

IsExecLine(l) == l[1] = "exec"
IsFatalLine(l) == l[1] = "fatal"
IsTrace(l) == l[1] = "trace"
ExecLines == SelectSeq(stderr, IsExecLine)
FatalLines == SelectSeq(stderr, IsFatalLine)
Traces == SelectSeq(stdout, IsTrace)

\* results the drain loop has handled: a path printed or kept, an error reported
HandledOk == Len(Traces) + Len(paths)
HandledErr == Len(ExecLines)

NoTaskExecuted == queue = <<>> /\ \A w \in Workers : wstate[w] = "unstarted"
AfterIslaMain == pc \in {"returned", "finalize_done", "exited"}

(***************************************************************************)
(* C1.  The driver pops only after start_multi has returned, that is after *)
(* every worker has stopped; and when the drain loop breaks on the empty   *)
(* queue, every result any worker pushed has been popped and handled       *)
(* exactly once.                                                           *)
(***************************************************************************)
C1_DrainAfterCompletion ==
    /\ (qhead > 0 \/ pc \in {"drain", "footprint"}) => SchedulerDone
    /\ pc = "drain" => /\ HandledOk = Len(OkEntries(Popped))
                       /\ HandledErr = Len(ErrEntries(Popped))
    /\ pc = "footprint" => /\ qhead = Len(queue)
                           /\ HandledOk = Len(OkEntries(queue))
                           /\ HandledErr = Len(ErrEntries(queue))

C1_Witness ==
    /\ pc = "footprint"
    /\ Len(OkEntries(queue)) >= 1
    /\ Len(ErrEntries(queue)) >= 1
    /\ opts.num_threads > 1

(***************************************************************************)
(* C7.  Without continue-on-error the first error popped is printed and    *)
(* the run aborts with code 1, nothing after it being popped or handled;   *)
(* with continue-on-error every error is printed and every queued result   *)
(* is still popped and handled.                                            *)
(***************************************************************************)
C7_ErrorPolicy ==
    /\ FlagClear("continue-on-error") =>
          /\ AfterIslaMain
          /\ code = 1
          /\ IsErr(queue[qhead])
          /\ Len(ErrEntries(Popped)) = 1
          /\ ExecLines = <<<<"exec", queue[qhead][2]>>>>
          /\ HandledOk = qhead - 1
    /\ FlagSet("continue-on-error") =>
          /\ HandledErr = Len(ErrEntries(Popped))
          /\ HandledOk = Len(OkEntries(Popped))
          /\ pc # "drain" => qhead = Len(queue)

C7_Witness ==
    /\ pc = "exited"
    /\ FlagClear("continue-on-error")
    /\ qhead < Len(queue)
    /\ IsOk(queue[Len(queue)])

(***************************************************************************)
(* C8 as claimed.  With continue-on-error set the driver exits 0 when a    *)
(* successful path was consumed and does not exit 0 when every task ended  *)
(* in an execution error.                                                  *)
(***************************************************************************)
C8_ExitCodeReflectsPaths ==
    (pc = "exited" /\ FlagSet("continue-on-error")) =>
        ((code = 0) <=> (OkEntries(queue) # <<>>))

(***************************************************************************)
(* C8 as amended.  With continue-on-error set the exit code does not       *)
(* depend on whether a successful path remained: the driver drains the     *)
(* whole queue, writes every error message to standard error and exits 0,  *)
(* unless the footprint analysis of dependency mode fails (exit 1).        *)
(***************************************************************************)
C8_ExitCodeContinue ==
    (pc = "exited" /\ FlagSet("continue-on-error")) =>
        /\ qhead = Len(queue)
        /\ ExecLines = [i \in 1..Len(ErrEntries(queue)) |-> <<"exec", ErrEntries(queue)[i][2]>>]
        /\ code = IF FlagSet("dependency") /\ footprint_analysis(paths)[1] = "err" THEN 1 ELSE 0

C8_Witness ==
    /\ pc = "exited"
    /\ FlagSet("continue-on-error")
    /\ OkEntries(queue) = <<>>
    /\ Len(queue) >= 2
    /\ code = 0

(***************************************************************************)
(* C9.  finalize_solver runs exactly once per process run, after every     *)
(* solver session has been closed and before the process exits, on every   *)
(* exit path of the driver.                                                *)
(***************************************************************************)
C9_TeardownOnEveryExit ==
    /\ finalized <= 1
    /\ finalized = 1 => /\ solver.st # "open"
                        /\ \A w \in Workers : wstate[w] \in {"unstarted", "stopped"}
    /\ pc = "exited" => finalized = 1

(***************************************************************************)
(* C10.  Every encoding error (a hex argument with a non-hex character or  *)
(* an odd number of characters, an unparsable segment, an opcode of more   *)
(* than 8 bytes, an assembly failure) ends the run with a diagnostic on    *)
(* standard error and exit code 1 before any task is executed.             *)
(***************************************************************************)
NotValidHex(str) ==
    \/ Len(str) % 2 = 1
    \/ \E i \in 1..Len(str) : ~IsDigit(str[i], 16)

EncodingError ==
    \/ opts.mode = "hex" /\ NotValidHex(opts.instruction)
    \/ opts.mode = "hex" /\ Len(opts.instruction) > 2 * 8
    \/ opts.mode = "partial" /\ Encode(opts)[1] = "exit"
    \/ opts.mode = "asm" /\ opts.assembled[1] = "err"
    \/ opts.mode = "asm" /\ opts.assembled[1] = "ok" /\ Len(opts.assembled[2]) > 8

C10_EncodingErrorsFatal ==
    (EncodingError /\ opts.endianness \in {"none", "little", "big"} /\ pc # "encode") =>
        /\ AfterIslaMain
        /\ code = 1
        /\ Len(FatalLines) = 1
        /\ NoTaskExecuted

(***************************************************************************)
(* C2.  For a fixed initial task the set of terminal paths pushed to the   *)
(* collector is the same for every worker count and every interleaving of  *)
(* worker steps (it is the set the depth-first run of one thread finds);   *)
(* only the order of arrival varies.                                       *)
(***************************************************************************)
SeqToSet(q) == {q[i] : i \in 1..Len(q)}

C2_PathSetDeterministic ==
    /\ Started => SeqToSet(OkEntries(queue)) \subseteq SeqToSet(OkEntries(Explore(InitialTask)))
    /\ SchedulerDone => SeqToSet(OkEntries(queue)) = SeqToSet(OkEntries(Explore(InitialTask)))

C2_Witness ==
    /\ SchedulerDone
    /\ opts.num_threads > 1
    /\ Len(OkEntries(queue)) = 2
    /\ OkEntries(queue) # OkEntries(Explore(InitialTask))

(***************************************************************************)
(* C3.  The scheduler terminates: once start_multi is called every worker  *)
(* eventually stops; and when all have stopped every feasible path of the  *)
(* function has had its result, path or error, pushed exactly once.        *)
(***************************************************************************)
PushedOnce ==
    /\ Len(OkEntries(queue)) >= FeasibleOfKind("ok")
    /\ Len(ErrEntries(queue)) >= FeasibleOfKind("err")
    /\ Sat(initial_checkpoint) => /\ Len(OkEntries(queue)) = FeasibleOfKind("ok")
                                  /\ Len(ErrEntries(queue)) = FeasibleOfKind("err")
    /\ \A i, j \in 1..Len(queue) : (i # j /\ IsOk(queue[i])) => queue[i] # queue[j]

C3_SchedulerTerminates ==
    /\ (pc = "start_multi") ~> SchedulerDone
    /\ [](SchedulerDone => PushedOnce /\ pending = EmptyBag)

C3_Witness ==
    /\ SchedulerDone
    /\ opts.num_threads > 1
    /\ Len(OkEntries(queue)) >= 1
    /\ Len(ErrEntries(queue)) >= 1
    /\ FeasibleOfKind("ok") = 1

(***************************************************************************)
(* C4.  Pruning soundness: a sibling is scheduled only if its path         *)
(* condition is satisfiable, so an unsatisfiable sibling leaves no entry,  *)
(* and no path that reaches the queue has an unsatisfiable recorded path   *)
(* condition.                                                              *)
(***************************************************************************)
Forked(chk) == chk.asserts # initial_checkpoint.asserts

C4_NoUnsatPath ==
    Started =>
        /\ \A t \in TasksInFlight : Forked(t.chk) => Sat(t.chk)
        /\ \A i \in 1..Len(queue) : IsOk(queue[i]) => Sat(RecordedSession(queue[i][3]))

(***************************************************************************)
(* C5.  A fork replaces the task by one sibling per arm: the sibling's     *)
(* path condition is the parent's with the arm's guard added, and its      *)
(* checkpoint is taken after the guard was asserted.  A single two-way     *)
(* branch on an unconstrained symbolic guard yields exactly two terminal   *)
(* paths, with mutually exclusive path conditions (unconstrained: nothing  *)
(* asserted before the branch mentions the guard or is contradictory).     *)
(***************************************************************************)
TraceAsserts(tr) == {tr[i][2] : i \in {j \in 1..Len(tr) : IsAssert(tr[j])}}

GuardAssertedLast(chk) ==
    /\ chk.trace # <<>>
    /\ IsAssert(chk.trace[Len(chk.trace)])
    /\ chk.trace[Len(chk.trace)][2][1] = "bit0"
    /\ chk.asserts = TraceAsserts(chk.trace)
    /\ chk.asserts =
          TraceAsserts(SubSeq(chk.trace, 1, Len(chk.trace) - 1)) \cup {chk.trace[Len(chk.trace)][2]}

UnconstrainedGuard(g) ==
    \/ g \in Regs /\ Sat(initial_checkpoint)
    \/ /\ opcode_val[1] = "mixed"
       /\ opcode_val[2] # <<>>
       /\ opcode_val[2][Len(opcode_val[2])][1] = "s"
       /\ initial_checkpoint.asserts = {}

SingleBranch ==
    /\ prog[1] = "fork"
    /\ prog[3] = <<"ok">>
    /\ prog[4] = <<"ok">>
    /\ UnconstrainedGuard(prog[2])

MutuallyExclusive(p, q) ==
    LET a == RecordedSession(p[3])
        b == RecordedSession(q[3])
    IN /\ Sat(a)
       /\ Sat(b)
       /\ a.sizes = b.sizes
       /\ ~Sat([a EXCEPT !.asserts = a.asserts \cup b.asserts])

C5_ForkSiblings ==
    Started =>
        /\ \A t \in TasksInFlight :
              \/ t.chk = initial_checkpoint
              \/ GuardAssertedLast(t.chk)
        /\ \A w \in Workers : wstate[w] = "busy" => wsession[w].asserts = wtask[w].chk.asserts
        /\ (SchedulerDone /\ SingleBranch) =>
              /\ Len(queue) = 2
              /\ IsOk(queue[1]) /\ IsOk(queue[2])
              /\ MutuallyExclusive(queue[1], queue[2])

C5_Witness ==
    /\ SchedulerDone
    /\ SingleBranch
    /\ Len(queue) = 2
    /\ opts.num_threads > 1
    /\ wsession[1] # wsession[2]

(***************************************************************************)
(* C6.  Restoring a checkpoint in a worker gives a private session holding *)
(* exactly the declarations and assertions of the checkpoint: nothing      *)
(* another worker, an earlier task or the producing session did later is   *)
(* visible in it.  The initial checkpoint holds what instruction_to_val    *)
(* declared and asserted, and reaches the initial task by value after the  *)
(* driver's solver has been dropped.                                       *)
(***************************************************************************)
IsPrefix(a, b) == Len(a) <= Len(b) /\ SubSeq(b, 1, Len(a)) = a

Encoded == opcode # <<>>
SymSegs == {i \in 1..Len(opcode) : opcode[i][1] = "s"}
SegNames == {opcode[i][2] : i \in SymSegs}
SizeClash == \E i, j \in SymSegs : opcode[i][2] = opcode[j][2] /\ opcode[i][3] # opcode[j][3]
DeclEvents(tr) == SelectSeq(tr, IsDecl)
AssertEvents(tr) == SelectSeq(tr, IsAssert)
WellFormed(c) == c[1] = "eq"

(***************************************************************************)
(* C11.  Every instruction constraint of the command line is asserted into *)
(* the initial solver state, and the initial checkpoint handed to the      *)
(* initial task is taken after the declarations of the fields and after    *)
(* all of these assertions.                                                *)
(***************************************************************************)
C11_ConstraintsAsserted ==
    pc = "build_task" =>
        /\ \A k \in 1..Len(opts.constraints) :
              WellFormed(opts.constraints[k]) =>
                 \E e \in initial_checkpoint.asserts :
                    e[1] = "eq" /\ e[3] = opts.constraints[k][3]
        /\ Len(AssertEvents(initial_checkpoint.trace)) = Len(opts.constraints)
        /\ initial_checkpoint.decls = Cardinality(SegNames)

(***************************************************************************)
(* C12.  A constraint error (a malformed constraint, or one naming a field *)
(* the partial instruction does not declare) is fatal at set-up: no task   *)
(* is built and the process exits with code 1.                             *)
(***************************************************************************)
ConstraintError ==
    /\ Encoded
    /\ ~SizeClash
    /\ \E k \in 1..Len(opts.constraints) :
          \/ ~WellFormed(opts.constraints[k])
          \/ opts.constraints[k][2] \notin SegNames

C12_ConstraintErrorsFatal ==
    ConstraintError =>
        /\ pc # "build_task"
        /\ pc = "exited" => code = 1

(***************************************************************************)
(* C13.  opcode_bytes: a 2-byte or 4-byte opcode decodes little-endian     *)
(* with byte 0 least significant and big-endian with byte 0 most           *)
(* significant, so little-endian decoding equals big-endian decoding of    *)
(* the reversed bytes; little is used when no endianness is given; for     *)
(* every other length up to 8 the result is the same for both settings.    *)
(***************************************************************************)
RECURSIVE LittleEndianValue(_)
LittleEndianValue(bytes) ==
    IF bytes = <<>> THEN 0 ELSE Head(bytes) + 256 * LittleEndianValue(Tail(bytes))

RECURSIVE BigEndianValue(_)
BigEndianValue(bytes) ==
    IF bytes = <<>> THEN 0
    ELSE Head(bytes) * Pow2(8 * (Len(bytes) - 1)) + BigEndianValue(Tail(bytes))

OpcodeOctets == hex_bytes(opts.instruction)[2]

C13_OpcodeBytesEndianness ==
    (opts.mode = "hex" /\ Encoded) =>
        LET bytes == OpcodeOctets
            little == opts.endianness \in {"none", "little"}
        IN /\ Len(opcode) = 1
           /\ opcode[1][1] = "c"
           /\ opcode[1][3] = 8 * Len(bytes)
           /\ Len(bytes) \in {2, 4} =>
                 /\ opcode[1][2] = IF little THEN LittleEndianValue(bytes) ELSE BigEndianValue(bytes)
                 /\ opcode_bytes(bytes, TRUE) = opcode_bytes(Reverse(bytes), FALSE)
           /\ Len(bytes) \notin {2, 4} =>
                 \A b \in BOOLEAN : opcode[1][2] = opcode_bytes(bytes, b)[2]

C13_Witness ==
    /\ opts.mode = "hex"
    /\ opts.endianness = "none"
    /\ pc = "solver_setup"
    /\ Len(OpcodeOctets) = 4
    /\ opcode[1][2] = LittleEndianValue(OpcodeOctets)
    /\ LittleEndianValue(OpcodeOctets) # BigEndianValue(OpcodeOctets)

(***************************************************************************)
(* C20.  instruction_to_val declares each distinct field name of a partial *)
(* instruction exactly once: a repeated name of the same size is the same  *)
(* solver variable, a repeated name of another size aborts the run, and    *)
(* the number of declared variables is the number of distinct names.       *)
(***************************************************************************)
C20_FieldsDeclaredOnce ==
    /\ pc = "checkpoint" =>
          /\ ~SizeClash
          /\ solver.s.decls = Cardinality(SegNames)
          /\ Len(DeclEvents(solver.s.trace)) = Cardinality(SegNames)
          /\ opcode_val[1] = "mixed" =>
                \A i, j \in SymSegs :
                   /\ opcode_val[2][i][1] = "s"
                   /\ (opcode[i][2] = opcode[j][2]) <=> (opcode_val[2][i][2] = opcode_val[2][j][2])
                   /\ solver.s.sizes[opcode_val[2][i][2] + 1] = opcode[i][3]
    /\ (Encoded /\ SizeClash) =>
          /\ pc \in {"solver_setup", "exited"}
          /\ pc = "exited" => code # 0 /\ finalized = 0

C20_Witness ==
    /\ pc = "checkpoint"
    /\ \E i, j \in SymSegs : i # j /\ opcode[i][2] = opcode[j][2]
    /\ solver.s.decls = 1

(***************************************************************************)
(* Vocabulary of the properties of the drain loop.                         *)
(***************************************************************************)
\* the path popped for the i-th path handled: the i-th successful result
PoppedPath(i) == OkEntries(Popped)[i][3]
IsRegEvent(ev) == ev[1] \in {"read_reg", "write_reg"}
IsCycle(ev) == ev[1] = "cycle"
IsInstr(ev) == ev[1] = "instr"
SimplifiedLine(l) == IsTrace(l) /\ ~l[3]

\* every variable is declared or defined before the events that refer to it
Chronological(seq) ==
    \A i \in 1..Len(seq) :
       EventUses(seq[i]) \subseteq UNION {DefinedVar(seq[j]) : j \in 1..(i - 1)}

\* a is b without some of its elements, the others in the same order
RECURSIVE IsSubsequence(_, _)
IsSubsequence(a, b) ==
    IF a = <<>> THEN TRUE
    ELSE IF b = <<>> THEN FALSE
    ELSE IF Head(a) = Head(b) THEN IsSubsequence(Tail(a), Tail(b))
    ELSE IsSubsequence(a, Tail(b))

RECURSIVE RegsFromFirstCycle(_, _)
RegsFromFirstCycle(seq, seen) ==
    IF seq = <<>> THEN <<>>
    ELSE IF IsCycle(Head(seq)) THEN RegsFromFirstCycle(Tail(seq), TRUE)
    ELSE IF IsRegEvent(Head(seq)) /\ seen THEN <<Head(seq)>> \o RegsFromFirstCycle(Tail(seq), seen)
    ELSE RegsFromFirstCycle(Tail(seq), seen)

ArrivedReversed(raw) ==
    \A i \in 1..Len(raw) :
       EventUses(raw[i]) \subseteq UNION {DefinedVar(raw[j]) : j \in (i + 1)..Len(raw)}

C18_TraceOrdering ==
    /\ \A i \in 1..Len(queue) : IsOk(queue[i]) => ArrivedReversed(queue[i][3])
    /\ \A i \in 1..Len(stdout) :
          IsTrace(stdout[i]) =>
             LET seq == stdout[i][2]
                 raw == PoppedPath(i)
             IN /\ Chronological(seq)
                /\ ~SimplifiedLine(stdout[i]) =>
                      /\ Len(seq) = Len(raw)
                      /\ \A k \in 1..Len(seq) : seq[k] = raw[Len(raw) + 1 - k]
                /\ SimplifiedLine(stdout[i]) =>
                      SelectSeq(seq, IsRegEvent) = RegsFromFirstCycle(Reverse(raw), FALSE)
    /\ \A i \in 1..Len(paths) :
          LET body == SubSeq(paths[i], 1, Len(paths[i]) - 1)
              raw == PoppedPath(i)
          IN /\ Chronological(body)
             /\ IsSubsequence(body, Reverse(raw))

C18_Witness ==
    /\ Len(stdout) = 1
    /\ SimplifiedLine(stdout[1])
    /\ \E k \in 1..Len(stdout[1][2]) : IsRegEvent(stdout[1][2][k])
    /\ Len(SelectSeq(stdout[1][2], IsRegEvent)) < Len(SelectSeq(PoppedPath(1), IsRegEvent))
    /\ ~Chronological(PoppedPath(1))

(***************************************************************************)
(* C19.  In dependency mode each successful result contributes exactly one *)
(* path: the events of the result in chronological order restricted to     *)
(* memory events other than instruction fetches, solver events,            *)
(* instruction and cycle markers and register writes, without the          *)
(* definitions nothing refers to, and one Instr event with the opcode      *)
(* value appended as the last element.                                     *)
(***************************************************************************)
Selected(ev) ==
    \/ ev[1] \in {"read_mem", "write_mem"} /\ ev[2] # "ifetch"
    \/ ev[1] \in {"smt_assert", "cycle", "instr", "write_reg"}

C19_DependencyPath ==
    FlagSet("dependency") =>
       /\ Len(paths) = Len(OkEntries(Popped))
       /\ \A i \in 1..Len(paths) :
             LET p == paths[i]
                 body == SubSeq(p, 1, Len(p) - 1)
                 raw == Reverse(PoppedPath(i))
                 used == UNION {EventUses(body[k]) : k \in 1..Len(body)}
             IN /\ p # <<>>
                /\ p[Len(p)] = <<"instr", opcode_val>>
                /\ Len(SelectSeq(p, IsInstr)) = Len(SelectSeq(raw, IsInstr)) + 1
                /\ IsSubsequence(body, raw)
                /\ SelectSeq(body, Selected) = SelectSeq(raw, Selected)
                /\ \A k \in 1..Len(body) :
                      \/ Selected(body[k])
                      \/ IsDefinition(body[k]) /\ body[k][2] \in used
                /\ \A k \in 1..Len(raw) :
                      (IsDefinition(raw[k]) /\ raw[k][2] \in used) =>
                         \E m \in 1..Len(body) : body[m] = raw[k]

C19_Witness ==
    /\ FlagSet("dependency")
    /\ Len(paths) = 1
    /\ \E k \in 1..Len(PoppedPath(1)) : PoppedPath(1)[k] = <<"read_mem", "ifetch">>
    /\ \E k \in 1..Len(PoppedPath(1)) : PoppedPath(1)[k] = <<"read_mem", "plain">>
    /\ \E k \in 1..Len(PoppedPath(1)) : PoppedPath(1)[k][1] = "read_reg"
    /\ Len(paths[1]) = 2

(***************************************************************************)
(* C15.  Traces are printed and execution errors reported only by the      *)
(* driver's drain loop, hence only after the scheduler has completed; a    *)
(* worker step only pushes a tagged result, and every result pushed is     *)
(* delivered as it was pushed and handled, none altered or left out.       *)
(***************************************************************************)
OutputLines == Len(stdout) + Len(ExecLines)

C15_OutputOnlyInConsumer ==
    /\ [](~SchedulerDone => (stdout = <<>> /\ ExecLines = <<>> /\ qhead = 0))
    /\ [][/\ schedVars' # schedVars => (stdout' = stdout /\ stderr' = stderr /\ qhead' = qhead)
          /\ IsPrefix(queue, queue')
          /\ qhead' # qhead =>
                /\ pc = "drain"
                /\ qhead' = qhead + 1
                /\ HandledOk' + HandledErr' = HandledOk + HandledErr + 1
                /\ IsErr(queue[qhead']) => stderr' = Append(stderr, <<"exec", queue[qhead'][2]>>)
                /\ (IsOk(queue[qhead']) /\ FlagClear("dependency")' /\ FlagClear("simplify")') =>
                      stdout' = Append(stdout, <<"trace", Reverse(queue[qhead'][3]), TRUE>>)
          /\ OutputLines' # OutputLines => (pc \in {"drain", "footprint"} /\ SchedulerDone)]_vars

C15_Witness ==
    /\ opts.num_threads > 1
    /\ Len(queue) = 2
    /\ qhead = 2
    /\ Len(Traces) = 1
    /\ Len(ExecLines) = 1

(***************************************************************************)
(* C16.  With the dependency flag set no event trace is printed: every     *)
(* successful result, with or without simplify, is kept in the path list   *)
(* for the footprint analysis, and standard output holds nothing but the   *)
(* footprint printed after the queue has been drained.                     *)
(***************************************************************************)
IsFootprintLine(l) == l[1] = "footprint"

C16_DependencyNoTrace ==
    FlagSet("dependency") =>
       /\ Traces = <<>>
       /\ Len(paths) = Len(OkEntries(Popped))
       /\ \A i \in 1..Len(stdout) : IsFootprintLine(stdout[i])
       /\ stdout # <<>> => (AfterIslaMain /\ qhead = Len(queue))

C16_Witness ==
    /\ FlagSet("dependency")
    /\ FlagSet("simplify")
    /\ Len(paths) = 2
    /\ Len(stdout) = 1
    /\ pc = "exited"

(***************************************************************************)
(* C17.  In dependency mode, when the paths of the instruction disagree on *)
(* the registers they depend on, the footprint analysis reports an error   *)
(* instead of merging them; on that error the driver writes it to standard *)
(* error, prints no footprint and exits with code 1.                       *)
(***************************************************************************)
WrittenRegs(events) == {events[k][2] : k \in {j \in 1..Len(events) : events[j][1] = "write_reg"}}

Disagree ==
    \E i, j \in 1..Len(queue) :
       /\ IsOk(queue[i])
       /\ IsOk(queue[j])
       /\ WrittenRegs(queue[i][3]) # WrittenRegs(queue[j][3])

\* the driver has gone through the footprint step after the drain loop
FootprintDone ==
    /\ AfterIslaMain
    /\ SchedulerDone
    /\ qhead = Len(queue)
    /\ ExecLines = <<>> \/ FlagSet("continue-on-error")

Calls == DOMAIN lexed

ReturnsTok(e) == e.item[1] = "ok"

ReturnsErr(e) == e.item[1] = "err"

ReturnsNone(e) == e.item[1] = "none"

TokOf(e) == e.item[3]

\* The characters of the text a returned token spans
Lexeme(e) == SubSeq(source, e.item[2] + 1, e.item[4])

\* A token without payload: one that comes from the keyword table
IsKeywordTok(e) == ReturnsTok(e) /\ Len(TokOf(e)) = 1

\* The number of whitespace characters a buffer starts with
LeadingSpace(buf) == RunOf(buf, 1, Whitespace)

\* The words of the table that begin the text left at position p
WordsAt(p) ==
    {KEYWORDS[i].word : i \in {j \in DOMAIN KEYWORDS : starts_with(Drop(source, p), KEYWORDS[j].word)}}

\* C21: distinct keywords lex to distinct tokens, and the operator keyword
\* @bvxor lexes to the token OpBvxor, not to the token of @bvor.
C21_KeywordTokens ==
    /\ \A i \in Calls :
          (IsKeywordTok(lexed[i]) /\ Lexeme(lexed[i]) = <<"@", "b", "v", "x", "o", "r">>)
              => TokOf(lexed[i]) = <<"OpBvxor">>
    /\ \A i, j \in Calls :
          (IsKeywordTok(lexed[i]) /\ IsKeywordTok(lexed[j])
           /\ Lexeme(lexed[i]) # Lexeme(lexed[j]))
              => TokOf(lexed[i]) # TokOf(lexed[j])

\* Of two words of the table, one beginning the other, the longer comes first
LongerFirst ==
    \A i, j \in DOMAIN KEYWORDS :
        (starts_with(KEYWORDS[j].word, KEYWORDS[i].word) /\ KEYWORDS[i].len < KEYWORDS[j].len)
            => j < i

\* C22: a call that returns a keyword token has consumed the longest word
\* of the table that begins the text at the token's start; and of two words
\* of the table, one beginning the other, the longer comes first.
C22_LongestKeyword ==
    /\ \A i \in Calls :
          IsKeywordTok(lexed[i])
              => \A w \in WordsAt(lexed[i].item[2]) : Len(w) <= Len(Lexeme(lexed[i]))
    /\ LongerFirst

\* A keyword token was returned where a shorter word of the table matched too
C22_Witness ==
    \E i \in Calls :
        /\ IsKeywordTok(lexed[i])
        /\ \E w \in WordsAt(lexed[i].item[2]) : Len(w) < Len(Lexeme(lexed[i]))

Unread(e) == Drop(e.before.buf, LeadingSpace(e.before.buf))

\* No arm of next reads the text: no keyword, identifier, hex, binary or
\* natural literal begins it, and no closed string literal
Unreadable(buf) ==
    /\ buf # <<>>
    /\ FirstKeyword(buf) = 0
    /\ ID_REGEX(buf) = 0 /\ HEX_REGEX(buf) = 0 /\ BIN_REGEX(buf) = 0 /\ NAT_REGEX(buf) = 0
    /\ ~(buf[1] = "\"" /\ \E j \in 2..Len(buf) : buf[j] = "\"")

====
